---------------------------- MODULE Spec2Model ----------------------------
(***************************************************************************)
(* Model of flask-app/app.py: a Flask service instrumented with            *)
(* OpenTelemetry.  Every request passes the before_request hooks, one      *)
(* route handler, the after_request hook and the teardown of the server    *)
(* span.  Handlers open spans with tracer.start_as_current_span, emit logs *)
(* through the root logger (whose OTel LoggingHandler stamps each record   *)
(* with the current span) and record metrics.  Requests run concurrently   *)
(* (one thread each), their statements interleaved.                        *)
(*                                                                         *)
(* The second part models the batch export processor that app.py installs  *)
(* for spans and for log records (BatchSpanProcessor,                      *)
(* BatchLogRecordProcessor); its code is not part of app.py and is         *)
(* modelled from the design document, section 4.1.                         *)
(***************************************************************************)
EXTENDS Naturals, Integers, Sequences, FiniteSets

(* ------------------------------ bounds --------------------------------- *)

\* Number of requests the server receives in one run.
MaxReqs == 2

\* Number of records offered to a batch export processor in one run.
MaxRecords == 6

\* Capacity of a processor's buffer and largest batch handed to the exporter
\* (the processors are built with their defaults; the model scales them down).
Capacity == 4

MaxBatchSize == 2

(* ------------------------- the route table ----------------------------- *)

Reqs == 1..MaxReqs

Routes == {"/", "/compute", "/db", "/error", "/order", "/pay", "/checkout", "/buy"}

\* A path no route is registered for (Flask answers 404).
Paths == Routes \cup {"/missing"}

\* @app.route registers GET only; any other method on a route is answered 405.
Methods == {"GET", "POST"}

LabelSets == Methods \X Paths

\* The requests clients send: GET on every path, POST on two of them.
Inputs == ({"GET"} \X Paths) \cup {<<"POST", "/">>, <<"POST", "/missing">>}

\* random.randint(1, 10) in checkout (its two ends), random.choice([100, 200, 500]) in buy.
CartSizes == {1, 10}

Amounts == {100, 200, 500}

\* Span ids are drawn at random by the SDK; the model names a span by the
\* request that started it and its rank among that request's spans.
NoSpan == <<0, 0>>

(* ------------------------------ state ---------------------------------- *)

VARIABLES
    pc,                 \* position of each request's thread
    request,            \* flask.request of each thread: method, path, start_time
    response,           \* the response each request produced: code, body
    ctx,                \* per-thread OTel context: stack of attached span ids
    spans,              \* the spans each request started, by rank
    logs,               \* log records handed to the logger provider
    now,                \* per thread: the clock as time.time() and the span timestamps read it
    request_counter,    \* http_requests_total, per label set
    latency_histogram,  \* http_request_duration_seconds, observations per label set
    orders_counter,     \* orders_total{status=success}
    payment_failures,   \* payment_failures_total{provider=BankX}
    cart_size_histogram,\* cart_size{currency=USD}: count and sum
    revenue_counter,    \* revenue_total{currency=USD}
    queue,              \* batch processor: buffered records
    exported,           \* batch processor: batches handed to the exporter, in order
    accepted,           \* batch processor: records accepted by enqueue, in order
    dropped,            \* batch processor: records dropped on overflow
    refused,            \* batch processor: records offered after shutdown
    offered,            \* batch processor: number of records offered so far
    done                \* batch processor: shutdown was called

telemetryVars == <<ctx, spans, logs, now>>

metricVars == <<request_counter, latency_histogram, orders_counter,
                payment_failures, cart_size_histogram, revenue_counter>>

appVars == <<pc, request, response, telemetryVars, metricVars>>

batchVars == <<queue, exported, accepted, dropped, refused, offered, done>>

vars == <<appVars, batchVars>>

(* --------------------------- pure helpers ------------------------------ *)

Last(s) == s[Len(s)]

Front(s) == SubSeq(s, 1, Len(s) - 1)

RECURSIVE SumSquares(_, _)
\* sum(i * i for i in range(lo, hi + 1)), summed by halves
SumSquares(lo, hi) ==
    IF lo > hi THEN 0
    ELSE IF lo = hi THEN lo * lo
    ELSE LET mid == (lo + hi) \div 2
         IN  SumSquares(lo, mid) + SumSquares(mid + 1, hi)

\* result = sum(i * i for i in range(1, 1000))
ComputeResult == SumSquares(1, 999)

\* The status the WSGI instrumentation gives the server span for a response
\* code: 5xx is an error, everything below leaves the status unset.
ServerSpanStatus(code) == IF code >= 500 THEN "error" ELSE "unset"

(* ------------------------ tracing and logging -------------------------- *)
(* The tracing state is threaded through the operators below as a record  *)
(* t = [ctx, spans, logs, now], so that a handler can be composed of      *)
(* several of them.  No thread compares a clock reading with another      *)
(* thread's, so now[r] keeps the clock as thread r reads it: its readings *)
(* never decrease, and a sleep of the thread advances them.               *)

Telemetry == [ctx |-> ctx, spans |-> spans, logs |-> logs, now |-> now]

Commit(t) ==
    /\ ctx' = t.ctx
    /\ spans' = t.spans
    /\ logs' = t.logs
    /\ now' = t.now

SpanOf(t, id) == t.spans[id[1]][id[2]]

\* Faulty variant: the outermost attached span instead of the innermost.
OutermostSpan(t, r) == IF t.ctx[r] = <<>> THEN NoSpan ELSE t.ctx[r][1]

\* Faulty variant: one current span shared by all threads (the innermost
\* span of the highest-numbered thread that has one).
SharedCurrentSpan(t, r) ==
    LET busy == {q \in Reqs : t.ctx[q] # <<>>}
    IN  IF busy = {} THEN NoSpan
        ELSE Last(t.ctx[CHOOSE q \in busy : \A q2 \in busy : q2 <= q])

\* trace.get_current_span() in thread r: the innermost attached span, or none.
\* The context is a contextvar, so each thread sees only its own.
CurrentSpan(t, r) == IF t.ctx[r] = <<>> THEN NoSpan ELSE Last(t.ctx[r])

\* tracer.start_as_current_span(name).__enter__(): start a span as a child of
\* the current span (same trace) or as the root of a new trace, and attach it.
StartSpan(t, r, name, kind) ==
    LET id     == <<r, Len(t.spans[r]) + 1>>
        parent == CurrentSpan(t, r)
        span   == [id |-> id, name |-> name, kind |-> kind, parent |-> parent,
                   trace |-> IF parent = NoSpan THEN id ELSE SpanOf(t, parent).trace,
                   start |-> t.now[r], end |-> t.now[r], ended |-> FALSE,
                   status |-> "unset"]
    IN  [t EXCEPT !.spans[r] = Append(@, span), !.ctx[r] = Append(@, id)]

\* Faulty variant: the span is ended but stays attached.
EndSpanKeepAttached(t, r, status) ==
    LET id == Last(t.ctx[r])
    IN  [t EXCEPT !.spans[id[1]][id[2]].end = t.now[r],
                  !.spans[id[1]][id[2]].ended = TRUE,
                  !.spans[id[1]][id[2]].status = status]

\* __exit__ of the with block: the span is ended (status as given), handed to
\* the span processor, and detached from the context.
EndSpan(t, r, status) ==
    LET id == Last(t.ctx[r])
    IN  [t EXCEPT !.spans[id[1]][id[2]].end = t.now[r],
                  !.spans[id[1]][id[2]].ended = TRUE,
                  !.spans[id[1]][id[2]].status = status,
                  !.ctx[r] = Front(@)]

\* logging.info / logging.error: the root logger passes the record to
\* otel_handler, which stamps it with the current span's ids (none: empty).
Emit(t, r, severity, body, arg) ==
    LET cur == CurrentSpan(t, r)
        rec == [req |-> r, severity |-> severity, body |-> body, arg |-> arg,
                span_id |-> cur,
                trace_id |-> IF cur = NoSpan THEN NoSpan ELSE SpanOf(t, cur).trace]
    IN  [t EXCEPT !.logs = @ \cup {rec}]

\* time.sleep(random.uniform(a, b)) with 0 < a: time passes for the thread.
Sleep(t, r) == [t EXCEPT !.now[r] = @ + 1]

(* ------------------------------ Init ----------------------------------- *)

NoRequest == [method |-> "", path |-> "", start_time |-> 0]

NoResponse == [code |-> 0, body |-> "", arg |-> 0]

Init ==
    /\ pc = [r \in Reqs |-> "idle"]
    /\ request = [r \in Reqs |-> NoRequest]
    /\ response = [r \in Reqs |-> NoResponse]
    /\ ctx = [r \in Reqs |-> <<>>]
    /\ spans = [r \in Reqs |-> <<>>]
    /\ logs = {}
    /\ now = [r \in Reqs |-> 0]
    /\ request_counter = [l \in LabelSets |-> 0]
    /\ latency_histogram = [l \in LabelSets |-> <<>>]
    /\ orders_counter = 0
    /\ payment_failures = 0
    /\ cart_size_histogram = [count |-> 0, sum |-> 0]
    /\ revenue_counter = 0
    /\ queue = <<>>
    /\ exported = <<>>
    /\ accepted = <<>>
    /\ dropped = 0
    /\ refused = 0
    /\ offered = 0
    /\ done = FALSE

(* --------------------------- the middleware ---------------------------- *)

Goto(r, label) == pc' = [pc EXCEPT ![r] = label]

Return(r, code, body, arg) ==
    /\ response' = [response EXCEPT ![r] = [code |-> code, body |-> body, arg |-> arg]]
    /\ Goto(r, "after")

\* The label the dispatcher jumps to: the route's handler for GET, the
\* routing error otherwise.
Dispatch(m, p) ==
    IF p \notin Routes THEN "not_found"
    ELSE IF m # "GET" THEN "not_allowed"
    ELSE p

\* A request arrives: the instrumentation's before_request hook starts the
\* server span and makes it current, then before_request stores start_time.
\* Requests are numbered in order of arrival.
before_request(r, m, p) ==
    /\ pc[r] = "idle"
    /\ \A q \in Reqs : q < r => pc[q] # "idle"
    /\ Commit(StartSpan(Telemetry, r, m \o " " \o p, "server"))
    /\ request' = [request EXCEPT ![r] = [method |-> m, path |-> p, start_time |-> now[r]]]
    /\ Goto(r, Dispatch(m, p))
    /\ UNCHANGED <<response, metricVars>>

\* No route matches, or the method is not allowed: Flask turns the routing
\* exception into the response; the after_request hook still runs.
routing_error(r) ==
    /\ pc[r] \in {"not_found", "not_allowed"}
    /\ IF pc[r] = "not_found"
       THEN Return(r, 404, "Not Found", 0)
       ELSE Return(r, 405, "Method Not Allowed", 0)
    /\ UNCHANGED <<request, telemetryVars, metricVars>>

\* {"method": request.method, "endpoint": request.path}
RequestLabels(r) == <<request[r].method, request[r].path>>

\* Faulty variant: no observation for a response that is an error.
ObserveSuccessOnly(h, r) ==
    IF response[r].code >= 400 THEN h
    ELSE [h EXCEPT ![RequestLabels(r)] = Append(@, now[r] - request[r].start_time)]

\* latency_histogram.record(duration, labels), duration = time.time() - start_time
Observe(h, r) == [h EXCEPT ![RequestLabels(r)] = Append(@, now[r] - request[r].start_time)]

\* Faulty variant: only successful responses are counted.
CountSuccessOnly(c, r) ==
    IF response[r].code >= 400 THEN c ELSE [c EXCEPT ![RequestLabels(r)] = @ + 1]

\* request_counter.add(1, labels)
Count(c, r) == [c EXCEPT ![RequestLabels(r)] = @ + 1]

\* @app.after_request: runs for every response, whatever its status.
after_request(r) ==
    /\ pc[r] = "after"
    /\ request_counter' = Count(request_counter, r)
    /\ latency_histogram' = Observe(latency_histogram, r)
    /\ Goto(r, "teardown")
    /\ UNCHANGED <<request, response, telemetryVars, orders_counter,
                   payment_failures, cart_size_histogram, revenue_counter>>

\* The response is started and the request context popped: the
\* instrumentation sets the server span's status from the response code,
\* ends the span and detaches it.
teardown_request(r) ==
    /\ pc[r] = "teardown"
    /\ Commit(EndSpan(Telemetry, r, ServerSpanStatus(response[r].code)))
    /\ Goto(r, "served")
    /\ UNCHANGED <<request, response, metricVars>>

\* app.run serves with werkzeug, which logs each request line at INFO once
\* the response is written; the record reaches otel_handler through the
\* root logger, after the server span was detached.
access_log(r) ==
    /\ pc[r] = "served"
    /\ Commit(Emit(Telemetry, r, "INFO", "access", response[r].code))
    /\ Goto(r, "done")
    /\ UNCHANGED <<request, response, metricVars>>

(* ----------------------------- handlers -------------------------------- *)
(* compute and fake_db, whose spans stay open across a sleep, are modelled *)
(* statement by statement, pay branch by branch; the other handlers run as *)
(* one step each.                                                          *)

\* One statement of a handler that only touches the tracing state.
Step(r, at, t, next) ==
    /\ pc[r] = at
    /\ Commit(t)
    /\ Goto(r, next)
    /\ UNCHANGED <<request, response, metricVars>>

\* The return statement inside the handler's with block: the span ends (no
\* exception leaves the block, so its status stays unset), the response is set.
ReturnFromSpan(r, at, code, body, arg) ==
    /\ pc[r] = at
    /\ Commit(EndSpan(Telemetry, r, "unset"))
    /\ Return(r, code, body, arg)
    /\ UNCHANGED <<request, metricVars>>

\* @app.route("/")
hello(r) ==
    /\ pc[r] = "/"
    /\ LET t1 == StartSpan(Telemetry, r, "hello-span", "internal")
           t2 == Emit(t1, r, "INFO", "Received request at / endpoint", 0)
       IN  Commit(EndSpan(t2, r, "unset"))
    /\ Return(r, 200, "Flask + OpenTelemetry Demo", 0)
    /\ UNCHANGED <<request, metricVars>>

\* @app.route("/compute")
compute(r) ==
    \/ Step(r, "/compute", StartSpan(Telemetry, r, "compute-span", "internal"), "compute2")
    \/ Step(r, "compute2", Emit(Telemetry, r, "INFO", "Start compute simulation", 0), "compute3")
    \/ Step(r, "compute3", Sleep(Telemetry, r), "compute4")
    \/ Step(r, "compute4", Emit(Telemetry, r, "INFO", "Compute result", ComputeResult), "compute5")
    \/ ReturnFromSpan(r, "compute5", 200, "Compute done! Result", ComputeResult)

\* @app.route("/db")
fake_db(r) ==
    \/ Step(r, "/db", StartSpan(Telemetry, r, "db-span", "internal"), "db2")
    \/ Step(r, "db2", Emit(Telemetry, r, "INFO", "Start fake DB operation", 0), "db3")
    \/ Step(r, "db3", StartSpan(Telemetry, r, "query-span", "internal"), "db4")
    \/ Step(r, "db4", Sleep(Telemetry, r), "db5")
    \/ Step(r, "db5", Emit(Telemetry, r, "INFO", "DB query completed", 0), "db6")
    \/ Step(r, "db6", EndSpan(Telemetry, r, "unset"), "db7")
    \/ Step(r, "db7", StartSpan(Telemetry, r, "update-span", "internal"), "db8")
    \/ Step(r, "db8", Sleep(Telemetry, r), "db9")
    \/ Step(r, "db9", Emit(Telemetry, r, "INFO", "DB update completed", 0), "db10")
    \/ Step(r, "db10", EndSpan(Telemetry, r, "unset"), "db11")
    \/ ReturnFromSpan(r, "db11", 200, "DB operation executed!", 0)

\* Faulty variant: the status code is left out of the return.
error_response_ok == [code |-> 200, body |-> "Error route triggered, check OTEL logs."]

\* return "Error route triggered, check OTEL logs.", 500
error_response == [code |-> 500, body |-> "Error route triggered, check OTEL logs."]

\* Faulty variant, without the try/except: the ZeroDivisionError leaves the
\* with block (the span ends with status error), nothing is logged and Flask
\* answers with its own 500 page.
error_route_uncaught(r) ==
    /\ pc[r] = "/error"
    /\ LET t1 == StartSpan(Telemetry, r, "error-span", "internal")
       IN  Commit(EndSpan(t1, r, "error"))
    /\ Return(r, 500, "Internal Server Error", 0)
    /\ UNCHANGED <<request, metricVars>>

\* @app.route("/error"): 1 / 0 raises ZeroDivisionError, which the handler
\* catches inside the with block; it logs the error and returns the response,
\* so the block is left by a return and the span's status stays unset.
error_route(r) ==
    /\ pc[r] = "/error"
    /\ LET t1 == StartSpan(Telemetry, r, "error-span", "internal")
           t2 == Emit(t1, r, "ERROR", "An error occurred: division by zero", 0)
       IN  Commit(EndSpan(t2, r, "unset"))
    /\ Return(r, error_response.code, error_response.body, 0)
    /\ UNCHANGED <<request, metricVars>>

\* @app.route("/order")
order(r) ==
    /\ pc[r] = "/order"
    /\ orders_counter' = orders_counter + 1
    /\ LET t1 == StartSpan(Telemetry, r, "order-span", "internal")
           t2 == Sleep(t1, r)
           t3 == Emit(t2, r, "INFO", "Order placed successfully", 0)
       IN  Commit(EndSpan(t3, r, "unset"))
    /\ Return(r, 200, "Order placed!", 0)
    /\ UNCHANGED <<request, request_counter, latency_histogram, payment_failures,
                   cart_size_histogram, revenue_counter>>

\* if random.choice([True, False]): either branch may be taken.
pay_choice(r, fail) ==
    /\ pc[r] = "pay2"
    /\ Goto(r, IF fail THEN "pay_failed" ELSE "pay_succeeded")
    /\ UNCHANGED <<request, response, telemetryVars, metricVars>>

\* The failing branch: the failure is counted and logged, 500 is returned.
pay_failed(r) ==
    /\ pc[r] = "pay_failed"
    /\ payment_failures' = payment_failures + 1
    /\ LET t1 == Emit(Telemetry, r, "ERROR", "Payment failed with BankX", 0)
       IN  Commit(EndSpan(t1, r, "unset"))
    /\ Return(r, 500, "Payment failed", 0)
    /\ UNCHANGED <<request, request_counter, latency_histogram, orders_counter,
                   cart_size_histogram, revenue_counter>>

\* Faulty variant: the success branch counts a failure too.
pay_succeeded_counted(r) ==
    /\ pc[r] = "pay_succeeded"
    /\ payment_failures' = payment_failures + 1
    /\ LET t1 == Emit(Telemetry, r, "INFO", "Payment succeeded with BankX", 0)
       IN  Commit(EndSpan(t1, r, "unset"))
    /\ Return(r, 200, "Payment success!", 0)
    /\ UNCHANGED <<request, request_counter, latency_histogram, orders_counter,
                   cart_size_histogram, revenue_counter>>

\* The other branch: the success is logged, 200 is returned.
pay_succeeded(r) ==
    /\ pc[r] = "pay_succeeded"
    /\ LET t1 == Emit(Telemetry, r, "INFO", "Payment succeeded with BankX", 0)
       IN  Commit(EndSpan(t1, r, "unset"))
    /\ Return(r, 200, "Payment success!", 0)
    /\ UNCHANGED <<request, metricVars>>

\* @app.route("/pay")
pay(r) ==
    \/ Step(r, "/pay", StartSpan(Telemetry, r, "payment-span", "internal"), "pay2")
    \/ \E fail \in BOOLEAN : pay_choice(r, fail)
    \/ pay_failed(r)
    \/ pay_succeeded(r)

\* @app.route("/checkout")
checkout(r) ==
    \E cart_size \in CartSizes :
        /\ pc[r] = "/checkout"
        /\ cart_size_histogram' = [count |-> cart_size_histogram.count + 1,
                                   sum |-> cart_size_histogram.sum + cart_size]
        /\ LET t1 == StartSpan(Telemetry, r, "checkout-span", "internal")
               t2 == Emit(t1, r, "INFO", "Checkout with items", cart_size)
           IN  Commit(EndSpan(t2, r, "unset"))
        /\ Return(r, 200, "Checkout complete with items!", cart_size)
        /\ UNCHANGED <<request, request_counter, latency_histogram, orders_counter,
                       payment_failures, revenue_counter>>

\* @app.route("/buy")
buy(r) ==
    \E amount \in Amounts :
        /\ pc[r] = "/buy"
        /\ revenue_counter' = revenue_counter + amount
        /\ LET t1 == StartSpan(Telemetry, r, "buy-span", "internal")
               t2 == Emit(t1, r, "INFO", "Purchase completed", amount)
           IN  Commit(EndSpan(t2, r, "unset"))
        /\ Return(r, 200, "Purchase complete! Amount", amount)
        /\ UNCHANGED <<request, request_counter, latency_histogram, orders_counter,
                       payment_failures, cart_size_histogram>>

(* ------------------------ the application's runs ----------------------- *)

\* A step of the application; the processor part of the state stays put.
App(A) == A /\ UNCHANGED batchVars

Next ==
    \/ \E r \in Reqs, in \in Inputs : App(before_request(r, in[1], in[2]))
    \/ \E r \in Reqs : App(routing_error(r))
    \/ \E r \in Reqs : App(hello(r))
    \/ \E r \in Reqs : App(compute(r))
    \/ \E r \in Reqs : App(fake_db(r))
    \/ \E r \in Reqs : App(error_route(r))
    \/ \E r \in Reqs : App(order(r))
    \/ \E r \in Reqs : App(pay(r))
    \/ \E r \in Reqs : App(checkout(r))
    \/ \E r \in Reqs : App(buy(r))
    \/ \E r \in Reqs : App(after_request(r))
    \/ \E r \in Reqs : App(teardown_request(r))
    \/ \E r \in Reqs : App(access_log(r))

Spec == Init /\ [][Next]_vars

(* ------------------- properties of the application --------------------- *)

\* The handler of request r has returned (its response is set).
Handled(r) == pc[r] \in {"after", "teardown", "served", "done"}

\* The after_request hook of request r has run.
Counted(r) == pc[r] \in {"teardown", "served", "done"}

IsGet(r, p) == request[r].method = "GET" /\ request[r].path = p

SpansNamed(r, name) == {i \in 1..Len(spans[r]) : spans[r][i].name = name}

HandlerLogs(r) == {l \in logs : l.req = r /\ l.body # "access"}

LogsOf(r, severity) == {l \in HandlerLogs(r) : l.severity = severity}

RECURSIVE SumOver(_, _)
SumOver(f, S) ==
    IF S = {} THEN 0
    ELSE LET x == CHOOSE x \in S : TRUE IN f[x] + SumOver(f, S \ {x})

\* C1: the request counter of a label set {method, path} equals the number of
\* requests with that method and path that passed after_request, whatever
\* their response (200, 404, 405, 500); hence each request adds exactly 1 to
\* its own label set, nothing to any other, and the counter sums to the
\* number of completed requests.
C1_CounterCountsEveryRequest ==
    /\ \A l \in LabelSets :
          request_counter[l] =
              Cardinality({r \in Reqs : Counted(r) /\ request[r].method = l[1]
                                                   /\ request[r].path = l[2]})
    /\ SumOver(request_counter, LabelSets) = Cardinality({r \in Reqs : Counted(r)})

\* Two requests were counted, one answered 500 and one answered 404.
C1_Witness ==
    \E r, q \in Reqs :
        /\ Counted(r) /\ response[r].code = 500
        /\ Counted(q) /\ response[q].code = 404
        /\ request_counter[<<"GET", request[r].path>>] = 1
        /\ request_counter[<<request[q].method, "/missing">>] = 1

\* C2: a GET /error request is answered 500 with the fixed body, and has
\* emitted exactly one ERROR log record, which carries the ids of the
\* error-span that the same request opened.
C2_ErrorRoute ==
    \A r \in Reqs :
        (IsGet(r, "/error") /\ Handled(r)) =>
            /\ response[r].code = 500
            /\ response[r].body = "Error route triggered, check OTEL logs."
            /\ Cardinality({l \in logs : l.req = r /\ l.severity = "ERROR"}) = 1
            /\ \A l \in logs :
                  (l.req = r /\ l.severity = "ERROR") =>
                      /\ l.span_id # NoSpan
                      /\ l.span_id[1] = r
                      /\ SpanOf(Telemetry, l.span_id).name = "error-span"
                      /\ l.trace_id = SpanOf(Telemetry, l.span_id).trace

\* A GET /error request was answered while another request was in its handler.
C2_Witness ==
    \E r, q \in Reqs :
        /\ IsGet(r, "/error") /\ Handled(r)
        /\ q # r /\ Len(ctx[q]) >= 2

\* C3 as claimed: the error-span of a GET /error request ends with status error.
C3_ErrorSpanMarkedError ==
    \A r \in Reqs : \A i \in SpansNamed(r, "error-span") :
        spans[r][i].ended => spans[r][i].status = "error"

\* C3, amended: the error-span of a GET /error request ends with status unset
\* (the fault is caught inside the with block, which is left by a return);
\* the span of the request that ends with status error is the server span,
\* marked from the 500 response.
C3_ErrorSpanUnsetServerSpanError ==
    \A r \in Reqs :
        IsGet(r, "/error") =>
            /\ Handled(r) => SpansNamed(r, "error-span") # {}
            /\ \A i \in SpansNamed(r, "error-span") :
                  spans[r][i].ended => spans[r][i].status = "unset"
            /\ \A i \in 1..Len(spans[r]) :
                  (spans[r][i].kind = "server" /\ spans[r][i].ended) =>
                      spans[r][i].status = "error"

\* A GET /error request is done: its error-span and its server span have ended.
C3_Witness ==
    \E r \in Reqs :
        /\ IsGet(r, "/error") /\ pc[r] = "done"
        /\ \A i \in 1..Len(spans[r]) : spans[r][i].ended
        /\ Len(spans[r]) = 2

PayFailed == {r \in Reqs : IsGet(r, "/pay") /\ Handled(r) /\ response[r].code = 500}

PaySucceeded == {r \in Reqs : IsGet(r, "/pay") /\ Handled(r) /\ response[r].code = 200}

\* C4: payment_failures_total equals the number of /pay responses with
\* status 500; a 500 response comes with one ERROR log and no INFO log of the
\* handler, a 200 response with one INFO log and no ERROR log; every /pay
\* response is one of the two, and both are possible for every request.
C4_PaymentFailures ==
    /\ payment_failures = Cardinality(PayFailed)
    /\ \A r \in Reqs : (IsGet(r, "/pay") /\ Handled(r)) => r \in PayFailed \cup PaySucceeded
    /\ \A r \in PayFailed :
          Cardinality(LogsOf(r, "ERROR")) = 1 /\ LogsOf(r, "INFO") = {}
    /\ \A r \in PaySucceeded :
          Cardinality(LogsOf(r, "INFO")) = 1 /\ LogsOf(r, "ERROR") = {}
    /\ \A r \in Reqs :
          pc[r] = "pay2" => ENABLED pay_choice(r, TRUE) /\ ENABLED pay_choice(r, FALSE)

\* One /pay request failed and another succeeded.
C4_Witness ==
    /\ PayFailed # {}
    /\ PaySucceeded # {}
    /\ payment_failures = 1

\* The span whose with block encloses the logging call with this body.
EnclosingSpan(body) ==
    CASE body = "Received request at / endpoint" -> "hello-span"
      [] body = "Start compute simulation" -> "compute-span"
      [] body = "Compute result" -> "compute-span"
      [] body = "Start fake DB operation" -> "db-span"
      [] body = "DB query completed" -> "query-span"
      [] body = "DB update completed" -> "update-span"
      [] body = "An error occurred: division by zero" -> "error-span"
      [] body = "Order placed successfully" -> "order-span"
      [] body = "Payment failed with BankX" -> "payment-span"
      [] body = "Payment succeeded with BankX" -> "payment-span"
      [] body = "Checkout with items" -> "checkout-span"
      [] body = "Purchase completed" -> "buy-span"

\* C5: a log record emitted inside a with block carries the span id and trace
\* id of the innermost span enclosing the call (in /db: db-span, query-span
\* and update-span for the three records); the access log, emitted when no
\* span is current, carries empty ids.
C5_LogCorrelation ==
    \A l \in logs :
        IF l.body = "access"
        THEN l.span_id = NoSpan /\ l.trace_id = NoSpan
        ELSE /\ l.span_id # NoSpan
             /\ SpanOf(Telemetry, l.span_id).name = EnclosingSpan(l.body)
             /\ l.trace_id = SpanOf(Telemetry, l.span_id).trace

\* A GET /db request is done: its three records and its access log exist.
C5_Witness ==
    \E r \in Reqs :
        /\ IsGet(r, "/db") /\ pc[r] = "done"
        /\ Cardinality(HandlerLogs(r)) = 3
        /\ \E l \in logs : l.req = r /\ l.body = "access"

\* C6: with requests interleaved in any order, every log record carries ids
\* of a span started by the request that emitted it, every span's parent is
\* a span of the same request and of the same trace, and a thread's context
\* holds only spans of its own request.
C6_ContextIsolation ==
    /\ \A l \in logs :
          l.span_id # NoSpan =>
              /\ l.span_id[1] = l.req
              /\ l.trace_id[1] = l.req
    /\ \A r \in Reqs : \A i \in 1..Len(spans[r]) :
          /\ spans[r][i].trace[1] = r
          /\ spans[r][i].parent # NoSpan =>
                /\ spans[r][i].parent[1] = r
                /\ SpanOf(Telemetry, spans[r][i].parent).trace = spans[r][i].trace
    /\ \A r \in Reqs : \A k \in 1..Len(ctx[r]) : ctx[r][k][1] = r

\* Two requests are inside their handlers at once, each with spans open and
\* records emitted: /db inside query-span, /compute inside compute-span.
C6_Witness ==
    \E r, q \in Reqs :
        /\ r # q
        /\ pc[r] = "db6" /\ Len(ctx[r]) = 3
        /\ pc[q] = "compute5" /\ Len(ctx[q]) = 2
        /\ Cardinality(HandlerLogs(r)) = 2
        /\ Cardinality(HandlerLogs(q)) = 2

\* C7: in a GET /db request, query-span and update-span are children of the
\* request's db-span and share its trace; query-span has ended, no later
\* than update-span starts, once update-span exists; and when db-span has
\* ended both children have ended, no later than db-span.
C7_NestedSpans ==
    \A r \in Reqs :
        IsGet(r, "/db") =>
            LET S == spans[r]
                db == SpansNamed(r, "db-span")
                query == SpansNamed(r, "query-span")
                update == SpansNamed(r, "update-span")
            IN  /\ Cardinality(db) <= 1 /\ Cardinality(query) <= 1
                /\ Cardinality(update) <= 1
                /\ \A c \in query \cup update : \E d \in db :
                      /\ S[c].parent = S[d].id
                      /\ S[c].trace = S[d].trace
                /\ \A u \in update : \E q \in query :
                      S[q].ended /\ S[q].end <= S[u].start
                /\ \A d \in db :
                      S[d].ended =>
                          /\ query # {} /\ update # {}
                          /\ \A c \in query \cup update :
                                S[c].ended /\ S[c].end <= S[d].end
                /\ Handled(r) => \E d \in db : S[d].ended

\* A GET /db request has returned while another request has a span open.
C7_Witness ==
    \E r, q \in Reqs :
        /\ IsGet(r, "/db") /\ Handled(r)
        /\ \E d \in SpansNamed(r, "db-span") : spans[r][d].end = 2
        /\ q # r /\ Len(ctx[q]) >= 2

\* C10: for every label set the latency histogram holds as many observations
\* as the request counter counts (one per request that passed after_request,
\* failed or not), each observation is >= 0, and when a request reaches
\* after_request every span its handler opened has ended.
C10_HistogramMatchesCounter ==
    /\ \A l \in LabelSets :
          /\ Len(latency_histogram[l]) = request_counter[l]
          /\ Len(latency_histogram[l]) =
                Cardinality({r \in Reqs : Counted(r) /\ request[r].method = l[1]
                                                     /\ request[r].path = l[2]})
          /\ \A i \in 1..Len(latency_histogram[l]) : latency_histogram[l][i] >= 0
    /\ \A r \in Reqs :
          Handled(r) =>
              \A i \in 1..Len(spans[r]) :
                  spans[r][i].kind = "internal" => spans[r][i].ended

\* A failed request (500) and a /db request that slept twice were both
\* observed.
C10_Witness ==
    \E r, q \in Reqs :
        /\ Counted(r) /\ response[r].code = 500
        /\ Counted(q) /\ IsGet(q, "/db")
        /\ latency_histogram[<<"GET", "/db">>] = <<2>>
        /\ Len(latency_histogram[<<"GET", request[r].path>>]) = 1

(* --------------------- the batch export processor ---------------------- *)
(* One processor (the span processor or the log record processor): records *)
(* 1, 2, 3, ... are offered to it in this order.  exported lists the       *)
(* batches handed to the exporter, whether or not the export succeeded: a  *)
(* failed export is logged and its batch discarded.                        *)

Ceil(n, b) == (n + b - 1) \div b

RECURSIVE Flatten(_)
\* The records of a sequence of batches, in order.
Flatten(bs) == IF bs = <<>> THEN <<>> ELSE bs[1] \o Flatten(Tail(bs))

Min(a, b) == IF a <= b THEN a ELSE b

\* Faulty variant: the newest records are taken first.
TakeNewest(q) ==
    LET n == Min(Len(q), MaxBatchSize)
    IN  [batch |-> SubSeq(q, Len(q) - n + 1, Len(q)), rest |-> SubSeq(q, 1, Len(q) - n)]

\* The worker takes the oldest records, at most maxBatchSize, off the buffer.
TakeBatch(q) ==
    LET n == Min(Len(q), MaxBatchSize)
    IN  [batch |-> SubSeq(q, 1, n), rest |-> SubSeq(q, n + 1, Len(q))]

RECURSIVE Drain(_)
\* The batches the worker exports until the buffer is empty.
Drain(q) ==
    IF q = <<>> THEN <<>>
    ELSE <<TakeBatch(q).batch>> \o Drain(TakeBatch(q).rest)

\* enqueue(record): never blocks.  After shutdown the record is not
\* accepted; at capacity it is dropped (drop-newest) and the drop counted.
enqueue ==
    /\ offered < MaxRecords
    /\ offered' = offered + 1
    /\ IF done
       THEN /\ refused' = refused + 1
            /\ UNCHANGED <<queue, accepted, dropped>>
       ELSE IF Len(queue) >= Capacity
       THEN /\ dropped' = dropped + 1
            /\ UNCHANGED <<queue, accepted, refused>>
       ELSE /\ queue' = Append(queue, offered + 1)
            /\ accepted' = Append(accepted, offered + 1)
            /\ UNCHANGED <<dropped, refused>>
    /\ UNCHANGED <<exported, done>>

\* The worker's flush: one batch is taken off the buffer and exported.
Flush ==
    /\ exported' = Append(exported, TakeBatch(queue).batch)
    /\ queue' = TakeBatch(queue).rest
    /\ UNCHANGED <<accepted, dropped, refused, offered, done>>

\* The worker wakes because the buffer holds maxBatchSize records.
flush_on_size ==
    /\ ~done
    /\ Len(queue) >= MaxBatchSize
    /\ Flush

\* The worker wakes because scheduledDelay has elapsed since the last flush;
\* with nothing buffered there is nothing to export.
flush_on_timer ==
    /\ ~done
    /\ queue # <<>>
    /\ Flush

\* Faulty variant: shutdown stops the worker without the final flush.
shutdown_without_flush ==
    /\ ~done
    /\ done' = TRUE
    /\ queue' = <<>>
    /\ UNCHANGED <<exported, accepted, dropped, refused, offered>>

\* shutdown(): no record is accepted any more, and the worker exports what
\* remains in the buffer, batch by batch, before shutdown returns.
shutdown ==
    /\ ~done
    /\ done' = TRUE
    /\ exported' = exported \o Drain(queue)
    /\ queue' = <<>>
    /\ UNCHANGED <<accepted, dropped, refused, offered>>

\* A step of the processor; the application part of the state stays put.
Worker(A) == A /\ UNCHANGED appVars

NextBatch ==
    \/ Worker(enqueue)
    \/ Worker(flush_on_size)
    \/ Worker(flush_on_timer)
    \/ Worker(shutdown)

SpecBatch == Init /\ [][NextBatch]_vars

(* -------------------- properties of the processor ---------------------- *)

====
